---- MODULE Spec2Model ----
(***************************************************************************)
(* Model of scripts/aws-cost-estimate.py: AWSCostEstimator and main().     *)
(*                                                                         *)
(* Money is Decimal in the source.  Here every amount is an integer number *)
(* of 1/10000 USD (so 0.0225 USD/hour is 225), which is exact for all the  *)
(* prices used; sums and the x730 conversion are exact, as they are with   *)
(* Decimal.  The ":.2f" formatting of a Decimal is modelled by Format2f,   *)
(* which yields an integer number of cents.                                *)
(*                                                                         *)
(* The second part models app/src/app.py, the demo web service: the        *)
(* threads of the server, the connection pool of DatabasePool and the      *)
(* request and error counters (SpecApp).                                   *)
(***************************************************************************)
EXTENDS Integers, Sequences, FiniteSets, TLC

VARIABLES
    plan,          \* the plan file named on the command line
    catalog,       \* what the pricing catalog answers to each query of the run
    pc,            \* position of main(): "start", "done", "aborted", "usage"
    monthly_cost,  \* result['monthly_cost'], in 1/10000 USD
    breakdown,     \* result['breakdown'], a sequence of lines
    resources,     \* result['resources']
    warnings,      \* the "Warning: ..." lines written to stderr
    report,        \* TRUE iff main() wrote its report to stdout
    exit_code,     \* the exit status of the process, -1 while running
    costs,         \* the estimator's self.costs
    first,         \* the result of an earlier estimate_cost on the same estimator
    pool_ready,    \* app.py: db_pool.pool is a connection pool (not None)
    in_use,        \* app.py: connections taken from db_pool.pool and not put back
    pool_exhausted, \* app.py: getconn has raised PoolError (pool exhausted)
    tpc,           \* app.py: where each server thread is in its request
    route,         \* app.py: the route of each thread's request
    status,        \* app.py: the status code of each thread's last response
    loaded,        \* app.py: the value each thread read for its pending "+= 1"
    request_count, \* app.py: the global request_count
    error_count,   \* app.py: the global error_count
    started,       \* app.py: requests received so far
    completed,     \* app.py: after_request hooks that have counted their request
    handled,       \* app.py: handle_exception calls that have counted their error
    reported       \* app.py: the counters in the last /metrics body

estimatorVars == <<costs, first>>

appVars == <<pool_ready, in_use, pool_exhausted, tpc, route, status, loaded,
             request_count, error_count, started, completed, handled, reported>>

vars == <<plan, catalog, pc, monthly_cost, breakdown, resources,
          warnings, report, exit_code, estimatorVars, appVars>>

----------------------------------------------------------------------------
(* Bounds of the model *)

\* The longest change list drawn from all of Entries
MaxEntries == 2

\* The longest change list drawn from PriceableEntries alone
MaxPriced == 3

\* The server threads of app.py that handle requests at the same time
NumThreads == 2

\* The requests the web service receives in one behaviour
MaxRequests == 3

\* The size of the connection pool: stands for Config.DB_POOL_MAX_CONN,
\* which is 10 unless the environment sets it
MaxConn == 2

----------------------------------------------------------------------------
(* Values *)

NoKey == "<absent>"     \* dict.get() of a key the dict does not hold: None

HoursPerMonth == 730

(* f"{d:.2f}" of a Decimal d = v/10000: the number of cents, rounded to    *)
(* nearest with ties going to the even cent (the decimal context's         *)
(* ROUND_HALF_EVEN).                                                       *)
Format2f(v) ==
    LET q == v \div 100
        r == v % 100
    IN  IF r > 50 THEN q + 1
        ELSE IF r < 50 THEN q
        ELSE IF q % 2 = 0 THEN q ELSE q + 1

----------------------------------------------------------------------------
(* The plan file.                                                          *)
(*                                                                         *)
(* file: "none" (no path on the command line), "unreadable" (open()        *)
(*       raises), "illformed" (json.load raises),                          *)
(*       "nonobject" (well-formed JSON whose top level is no object, so    *)
(*       plan.get raises AttributeError) or "object".                      *)
(* rc:   the resource_changes field of an object: "missing", "null",       *)
(*       "scalar" (a number or boolean: not iterable) or "list" (any       *)
(*       iterable, its elements in changes).                               *)
(* An element of the list is a JSON object (obj) or not.  Of an object:    *)
(* type is its 'type' (NoKey when it has none); chg tells whether 'change' *)
(* is missing or an object; actions is change.actions (<<>> when missing); *)
(* after tells whether change.after is missing, an object or null;         *)
(* instance_type and instance_class are the values of those keys in        *)
(* change.after (NoKey when not there, "" for an empty string).            *)

Change(type, actions, after, instance_type, instance_class) ==
    [obj |-> TRUE, type |-> type, chg |-> "object", actions |-> actions,
     after |-> after, instance_type |-> instance_type,
     instance_class |-> instance_class]

NotAnObject ==
    [obj |-> FALSE, type |-> NoKey, chg |-> "missing", actions |-> <<>>,
     after |-> "missing", instance_type |-> NoKey, instance_class |-> NoKey]

NoChangeField(type) ==
    [obj |-> TRUE, type |-> type, chg |-> "missing", actions |-> <<>>,
     after |-> "missing", instance_type |-> NoKey, instance_class |-> NoKey]

Ec2Type == "t3.micro"
RdsClass == "db.t3.micro"

(* Changes estimate_cost can price. *)
PriceableEntries ==
    { Change("aws_instance", <<"create">>, "object", Ec2Type, NoKey),
      Change("aws_launch_template", <<"update">>, "object", Ec2Type, NoKey),
      Change("aws_db_instance", <<"delete", "create">>, "object", NoKey, RdsClass),
      Change("aws_lb", <<"create">>, "object", NoKey, NoKey),
      NoChangeField("aws_alb"),
      Change("aws_nat_gateway", <<"update">>, "object", Ec2Type, NoKey) }

(* Destroy-only changes *)
DeleteEntries ==
    { Change("aws_instance", <<"delete">>, "object", Ec2Type, NoKey),
      Change("aws_lb", <<"delete">>, "null", NoKey, NoKey) }

(* Changes of no known type, or of a parameterised type without its        *)
(* parameter.                                                              *)
DroppedEntries ==
    { Change("aws_s3_bucket", <<"create">>, "object", Ec2Type, RdsClass),
      Change("aws_instance", <<"create">>, "object", NoKey, RdsClass),
      Change("aws_db_instance", <<"update">>, "object", Ec2Type, "") }

(* Elements the loop body cannot read. *)
MalformedEntries ==
    { NotAnObject,
      Change("aws_instance", <<"create">>, "null", NoKey, NoKey) }

Entries == PriceableEntries \cup DeleteEntries \cup DroppedEntries
               \cup MalformedEntries

RECURSIVE SeqsUpTo(_, _)
SeqsUpTo(S, n) ==
    IF n = 0 THEN { <<>> }
    ELSE LET shorter == SeqsUpTo(S, n - 1)
         IN  shorter \cup { Append(s, e) : s \in { t \in shorter : Len(t) = n - 1 }, e \in S }

Document(file, rc, changes) == [file |-> file, rc |-> rc, changes |-> changes]

Plans ==
    { Document(f, "missing", <<>>) : f \in {"unreadable", "illformed", "nonobject"} }
    \cup { Document("object", rc, <<>>) : rc \in {"missing", "null", "scalar"} }
    \cup { Document("object", "list", cs) : cs \in SeqsUpTo(Entries, MaxEntries) }
    \cup { Document("object", "list", cs) : cs \in SeqsUpTo(PriceableEntries, MaxPriced) }

----------------------------------------------------------------------------
(* The pricing catalog: what pricing_client.get_products answers.          *)
(* "raise": the call raises; "empty": PriceList is empty; "malformed": the *)
(* first price item lacks the expected structure or its USD value is no    *)
(* decimal; "price": pricePerUnit.USD is the decimal usd/10000, an hourly  *)
(* rate, which is never negative and may be zero.                          *)

Answer(kind, usd) == [kind |-> kind, usd |-> usd]

Failures == { Answer(k, 0) : k \in {"raise", "empty", "malformed"} }

Ec2Answers == Failures \cup { Answer("price", p) : p \in {0, 104} }

RdsAnswers == Failures \cup { Answer("price", p) : p \in {0, 171} }

Queries == { <<"AmazonEC2", Ec2Type>>, <<"AmazonRDS", RdsClass>> }

Catalogs ==
    { c \in [Queries -> Ec2Answers \cup RdsAnswers] :
        /\ c[<<"AmazonEC2", Ec2Type>>] \in Ec2Answers
        /\ c[<<"AmazonRDS", RdsClass>>] \in RdsAnswers }

None == -1      \* Optional[Decimal]: no price

----------------------------------------------------------------------------
(* AWSCostEstimator.parse_terraform_plan *)

EmptyResources ==
    [ec2_instances |-> <<>>, rds_instances |-> <<>>, albs |-> 0, nat_gateways |-> 0]

(* The list compared with the string 'delete': never equal *)
IsDestroyOnlyString(change_action) == FALSE

(* change_action == ['delete'] *)
IsDestroyOnly(change_action) == change_action = <<"delete">>

(* The truth value of after.get(key) *)
Truthy(v) == v # NoKey /\ v # ""

(* An element the loop body raises on: change.get on something that is no  *)
(* object, or after.get on an 'after' that is no object, which only the    *)
(* parameterised types reach.                                              *)
Raises(change) ==
    \/ ~change.obj
    \/ /\ ~IsDestroyOnly(change.actions)
       /\ change.after = "null"
       /\ change.type \in {"aws_instance", "aws_launch_template", "aws_db_instance"}

(* The last branch taken for every other type: "else:" for                 *)
(* "elif resource_type == 'aws_nat_gateway':"                              *)
ParseChangeElseNat(res, change) ==
    IF IsDestroyOnly(change.actions) THEN res
    ELSE IF change.type \in {"aws_instance", "aws_launch_template"} THEN
        IF Truthy(change.instance_type)
        THEN [res EXCEPT !.ec2_instances = Append(@, change.instance_type)]
        ELSE res
    ELSE IF change.type = "aws_db_instance" THEN
        IF Truthy(change.instance_class)
        THEN [res EXCEPT !.rds_instances = Append(@, change.instance_class)]
        ELSE res
    ELSE IF change.type = "aws_lb" \/ change.type = "aws_alb" THEN
        [res EXCEPT !.albs = @ + 1]
    ELSE [res EXCEPT !.nat_gateways = @ + 1]

(* One iteration of the loop over resource_changes, for an element it does *)
(* not raise on.                                                           *)
ParseChange(res, change) ==
    IF IsDestroyOnly(change.actions) THEN res
    ELSE IF change.type \in {"aws_instance", "aws_launch_template"} THEN
        IF Truthy(change.instance_type)
        THEN [res EXCEPT !.ec2_instances = Append(@, change.instance_type)]
        ELSE res
    ELSE IF change.type = "aws_db_instance" THEN
        IF Truthy(change.instance_class)
        THEN [res EXCEPT !.rds_instances = Append(@, change.instance_class)]
        ELSE res
    ELSE IF change.type = "aws_lb" \/ change.type = "aws_alb" THEN
        [res EXCEPT !.albs = @ + 1]
    ELSE IF change.type = "aws_nat_gateway" THEN
        [res EXCEPT !.nat_gateways = @ + 1]
    ELSE res

RECURSIVE ParseChanges(_, _)
ParseChanges(res, changes) ==
    IF changes = <<>> THEN res
    ELSE ParseChanges(ParseChange(res, Head(changes)), Tail(changes))

(* "plan.get('resource_changes') or []": a null field read as no changes *)
ParseRaisesUnlessNull(doc) ==
    \/ doc.file # "object"
    \/ doc.rc = "scalar"
    \/ doc.rc = "list" /\ \E i \in 1..Len(doc.changes) : Raises(doc.changes[i])

(* TRUE iff parse_terraform_plan raises on the document *)
ParseRaises(doc) ==
    \/ doc.file # "object"
    \/ doc.rc \in {"null", "scalar"}
    \/ doc.rc = "list" /\ \E i \in 1..Len(doc.changes) : Raises(doc.changes[i])

(* What parse_terraform_plan returns when it does not raise;               *)
(* plan.get('resource_changes', []) is the empty list for a missing field. *)
parse_terraform_plan(doc) ==
    ParseChanges(EmptyResources, IF doc.rc = "missing" THEN <<>> ELSE doc.changes)

----------------------------------------------------------------------------
(* Price lookups *)

(* An empty PriceList answered with a default price instead of None *)
PriceOfWithDefault(answer) ==
    IF answer.kind = "price" THEN [price |-> answer.usd, warned |-> FALSE]
    ELSE IF answer.kind = "empty" THEN [price |-> 100, warned |-> FALSE]
    ELSE [price |-> None, warned |-> TRUE]

(* The body shared by get_ec2_price and get_rds_price, given the answer of *)
(* get_products: the price when the answer holds one; None otherwise, with *)
(* a warning when the try block raised, and without one when PriceList is  *)
(* empty.                                                                  *)
PriceOf(answer) ==
    IF answer.kind = "price" THEN [price |-> answer.usd, warned |-> FALSE]
    ELSE IF answer.kind = "empty" THEN [price |-> None, warned |-> FALSE]
    ELSE [price |-> None, warned |-> TRUE]

get_ec2_price(cat, instance_type) == PriceOf(cat[<<"AmazonEC2", instance_type>>])

get_rds_price(cat, instance_class) == PriceOf(cat[<<"AmazonRDS", instance_class>>])

get_alb_price == 225            \* Decimal('0.0225')

get_nat_gateway_price == 450    \* Decimal('0.045')

(* "if price:" - a Decimal that is not None and not zero *)
PriceTruthy(price) == price # None /\ price # 0

----------------------------------------------------------------------------
(* AWSCostEstimator.estimate_cost *)

(* The lines of the breakdown.  amount is the hourly price in 1/10000 USD  *)
(* for an item line ("${price}/hour"), and the number of cents displayed   *)
(* by ":.2f" for the other lines.                                          *)
ItemLine(label, id, price) ==
    [label |-> label, id |-> id, n |-> 1, amount |-> price]

TotalLine(label, monthly) ==
    [label |-> label, id |-> "", n |-> 0, amount |-> Format2f(monthly)]

FlatLine(label, n, monthly) ==
    [label |-> label, id |-> "", n |-> n, amount |-> Format2f(monthly)]

(* monthly_cost and breakdown kept from the call before instead of being   *)
(* set to Decimal('0') and [] at the start of estimate_cost                *)
StartCarried ==
    [monthly_cost |-> monthly_cost, breakdown |-> breakdown, warnings |-> <<>>]

(* The state of estimate_cost between its sections: the running            *)
(* monthly_cost, the breakdown and the warnings printed so far.            *)
Start == [monthly_cost |-> 0, breakdown |-> <<>>, warnings |-> <<>>]

(* One iteration of "for instance_type in resources['ec2_instances']";     *)
(* acc adds the running ec2_hourly to the state.                           *)
Ec2Item(acc, cat, instance_type) ==
    LET got == get_ec2_price(cat, instance_type)
        w   == IF got.warned
               THEN Append(acc.warnings, <<"EC2", instance_type>>)
               ELSE acc.warnings
    IN  IF PriceTruthy(got.price)
        THEN [acc EXCEPT !.hourly = @ + got.price,
                         !.breakdown = Append(@, ItemLine("EC2", instance_type, got.price)),
                         !.warnings = w]
        ELSE [acc EXCEPT !.warnings = w]

RECURSIVE Ec2Loop(_, _, _)
Ec2Loop(acc, cat, ids) ==
    IF ids = <<>> THEN acc
    ELSE Ec2Loop(Ec2Item(acc, cat, Head(ids)), cat, Tail(ids))

(* ec2_monthly = ec2_hourly * 730 *)
Ec2Monthly(ec2_hourly) == ec2_hourly * HoursPerMonth

Ec2Section(st, cat, res) ==
    LET acc == Ec2Loop([hourly |-> 0, breakdown |-> st.breakdown,
                        warnings |-> st.warnings], cat, res.ec2_instances)
    IN  IF acc.hourly > 0
        THEN [monthly_cost |-> st.monthly_cost + Ec2Monthly(acc.hourly),
              breakdown |-> Append(acc.breakdown,
                                   TotalLine("EC2 Total", Ec2Monthly(acc.hourly))),
              warnings |-> acc.warnings]
        ELSE [monthly_cost |-> st.monthly_cost, breakdown |-> acc.breakdown,
              warnings |-> acc.warnings]

(* One iteration of "for instance_class in resources['rds_instances']" *)
RdsItem(acc, cat, instance_class) ==
    LET got == get_rds_price(cat, instance_class)
        w   == IF got.warned
               THEN Append(acc.warnings, <<"RDS", instance_class>>)
               ELSE acc.warnings
    IN  IF PriceTruthy(got.price)
        THEN [acc EXCEPT !.hourly = @ + got.price,
                         !.breakdown = Append(@, ItemLine("RDS", instance_class, got.price)),
                         !.warnings = w]
        ELSE [acc EXCEPT !.warnings = w]

RECURSIVE RdsLoop(_, _, _)
RdsLoop(acc, cat, ids) ==
    IF ids = <<>> THEN acc
    ELSE RdsLoop(RdsItem(acc, cat, Head(ids)), cat, Tail(ids))

(* rds_monthly = rds_hourly * 730 *)
RdsMonthly(rds_hourly) == rds_hourly * HoursPerMonth

(* Each price converted to a monthly amount and rounded to the cent before *)
(* the amounts are summed                                                  *)
RECURSIVE RdsMonthlyPerInstance(_, _)
RdsMonthlyPerInstance(cat, ids) ==
    IF ids = <<>> THEN 0
    ELSE LET got == get_rds_price(cat, Head(ids))
         IN  (IF PriceTruthy(got.price)
              THEN 100 * Format2f(got.price * HoursPerMonth) ELSE 0)
             + RdsMonthlyPerInstance(cat, Tail(ids))

RdsSectionPerInstance(st, cat, res) ==
    LET acc == RdsLoop([hourly |-> 0, breakdown |-> st.breakdown,
                        warnings |-> st.warnings], cat, res.rds_instances)
        rds_monthly == RdsMonthlyPerInstance(cat, res.rds_instances)
    IN  IF acc.hourly > 0
        THEN [monthly_cost |-> st.monthly_cost + rds_monthly,
              breakdown |-> Append(acc.breakdown, TotalLine("RDS Total", rds_monthly)),
              warnings |-> acc.warnings]
        ELSE [monthly_cost |-> st.monthly_cost, breakdown |-> acc.breakdown,
              warnings |-> acc.warnings]

(* "monthly_cost = rds_monthly" in place of "monthly_cost += rds_monthly" *)
RdsSectionAssigns(st, cat, res) ==
    LET acc == RdsLoop([hourly |-> 0, breakdown |-> st.breakdown,
                        warnings |-> st.warnings], cat, res.rds_instances)
    IN  IF acc.hourly > 0
        THEN [monthly_cost |-> RdsMonthly(acc.hourly),
              breakdown |-> Append(acc.breakdown,
                                   TotalLine("RDS Total", RdsMonthly(acc.hourly))),
              warnings |-> acc.warnings]
        ELSE [monthly_cost |-> st.monthly_cost, breakdown |-> acc.breakdown,
              warnings |-> acc.warnings]

RdsSection(st, cat, res) ==
    LET acc == RdsLoop([hourly |-> 0, breakdown |-> st.breakdown,
                        warnings |-> st.warnings], cat, res.rds_instances)
    IN  IF acc.hourly > 0
        THEN [monthly_cost |-> st.monthly_cost + RdsMonthly(acc.hourly),
              breakdown |-> Append(acc.breakdown,
                                   TotalLine("RDS Total", RdsMonthly(acc.hourly))),
              warnings |-> acc.warnings]
        ELSE [monthly_cost |-> st.monthly_cost, breakdown |-> acc.breakdown,
              warnings |-> acc.warnings]

(* alb_monthly = alb_price * 730 * resources['albs'] *)
AlbMonthly(albs) == get_alb_price * HoursPerMonth * albs

(* The line appended without "monthly_cost += alb_monthly" *)
AlbSectionNotAdded(st, res) ==
    IF res.albs > 0
    THEN [st EXCEPT !.breakdown = Append(@, FlatLine("ALB", res.albs, AlbMonthly(res.albs)))]
    ELSE st

AlbSection(st, res) ==
    IF res.albs > 0
    THEN [st EXCEPT !.monthly_cost = @ + AlbMonthly(res.albs),
                    !.breakdown = Append(@, FlatLine("ALB", res.albs, AlbMonthly(res.albs)))]
    ELSE st

(* The count left out of the product *)
NatMonthlyOfOne(nat_gateways) == get_nat_gateway_price * HoursPerMonth

(* nat_monthly = nat_price * 730 * resources['nat_gateways'] *)
NatMonthly(nat_gateways) == get_nat_gateway_price * HoursPerMonth * nat_gateways

NatSection(st, res) ==
    IF res.nat_gateways > 0
    THEN [st EXCEPT !.monthly_cost = @ + NatMonthly(res.nat_gateways),
                    !.breakdown = Append(@, FlatLine("NAT Gateway", res.nat_gateways,
                                                     NatMonthly(res.nat_gateways)))]
    ELSE st

(* The sections of estimate_cost after parsing, in order *)
(* The flat-rate sections run before the per-item sections *)
PriceResourcesFlatFirst(cat, res) ==
    RdsSection(Ec2Section(NatSection(AlbSection(Start, res), res), cat, res), cat, res)

PriceResources(cat, res) ==
    NatSection(AlbSection(RdsSection(Ec2Section(Start, cat, res), cat, res), res), res)

(* estimate_cost on a document parse_terraform_plan does not raise on.     *)
(* monthly_cost is the Decimal total; the float() of the return statement  *)
(* yields the binary64 nearest to it, which keeps zero and the order.      *)
estimate_cost(doc, cat) ==
    LET res == parse_terraform_plan(doc)
        st  == PriceResources(cat, res)
    IN  [monthly_cost |-> st.monthly_cost, breakdown |-> st.breakdown,
         resources |-> res, warnings |-> st.warnings]

----------------------------------------------------------------------------
(* main() *)

(* Before main() runs the catalog has not been asked anything. *)
NotAsked == [q \in Queries |-> Answer("unasked", 0)]

NoArgument == Document("none", "missing", <<>>)

(* The server threads of the web service *)
Threads == 1..NumThreads

(* No /metrics body has been sent yet *)
NothingReported ==
    [sent |-> FALSE, requests |-> 0, errors |-> 0, completed |-> 0, handled |-> 0]

(* The web service of app.py is a separate process: while the estimator    *)
(* script runs, no thread of it serves a request.                          *)
AppNotServing ==
    /\ pool_ready = FALSE
    /\ in_use = 0
    /\ pool_exhausted = FALSE
    /\ tpc = [t \in Threads |-> "idle"]
    /\ route = [t \in Threads |-> "/"]
    /\ status = [t \in Threads |-> 0]
    /\ loaded = [t \in Threads |-> 0]
    /\ request_count = 0
    /\ error_count = 0
    /\ started = 0
    /\ completed = 0
    /\ handled = 0
    /\ reported = NothingReported

(* AWSCostEstimator.__init__: self.costs = {} *)
NoCosts == <<>>

(* No estimate_cost has returned on this estimator yet *)
NoRun == [ran |-> FALSE, monthly_cost |-> 0, breakdown |-> <<>>,
          resources |-> EmptyResources, warnings |-> <<>>]

Init ==
    /\ plan \in Plans \cup {NoArgument}
    /\ catalog = NotAsked
    /\ pc = "start"
    /\ monthly_cost = 0
    /\ breakdown = <<>>
    /\ resources = EmptyResources
    /\ warnings = <<>>
    /\ report = FALSE
    /\ exit_code = -1
    /\ costs = NoCosts
    /\ first = NoRun
    /\ AppNotServing

(* len(sys.argv) < 2: the usage line and sys.exit(1) *)
Usage ==
    /\ pc = "start"
    /\ plan = NoArgument
    /\ pc' = "usage"
    /\ exit_code' = 1
    /\ UNCHANGED <<plan, catalog, monthly_cost, breakdown, resources, warnings, report>>
    /\ UNCHANGED estimatorVars
    /\ UNCHANGED appVars

(* estimate_cost raises out of parse_terraform_plan: main() catches        *)
(* nothing, the interpreter prints the traceback and exits with status 1.  *)
Abort ==
    /\ pc = "start"
    /\ plan # NoArgument
    /\ ParseRaises(plan)
    /\ pc' = "aborted"
    /\ exit_code' = 1
    /\ UNCHANGED <<plan, catalog, monthly_cost, breakdown, resources, warnings, report>>
    /\ UNCHANGED estimatorVars
    /\ UNCHANGED appVars

(* estimate_cost returns and main() writes the report; cat is what the     *)
(* catalog answers during this run.                                        *)
Estimate ==
    /\ pc = "start"
    /\ plan # NoArgument
    /\ ~ParseRaises(plan)
    /\ \E cat \in Catalogs :
          /\ catalog' = cat
          /\ LET result == estimate_cost(plan, cat)
             IN  /\ monthly_cost' = result.monthly_cost
                 /\ breakdown' = result.breakdown
                 /\ resources' = result.resources
                 /\ warnings' = result.warnings
    /\ report' = TRUE
    /\ pc' = "done"
    /\ exit_code' = 0
    /\ UNCHANGED plan
    /\ UNCHANGED estimatorVars
    /\ UNCHANGED appVars

Next == Usage \/ Abort \/ Estimate

Spec == Init /\ [][Next]_vars

----------------------------------------------------------------------------
(* estimate_cost called once more on the same estimator, with the same     *)
(* plan file and the catalog answering as before.  The method reads and    *)
(* writes no attribute of the estimator but pricing_client and region:     *)
(* self.costs stays as __init__ left it, and monthly_cost and breakdown    *)
(* are locals that start afresh.  The result of the call before is kept in *)
(* first.                                                                  *)
EstimateAgain ==
    /\ pc = "done"
    /\ ~first.ran
    /\ first' = [ran |-> TRUE, monthly_cost |-> monthly_cost, breakdown |-> breakdown,
                 resources |-> resources, warnings |-> warnings]
    /\ LET result == estimate_cost(plan, catalog)
       IN  /\ monthly_cost' = result.monthly_cost
           /\ breakdown' = result.breakdown
           /\ resources' = result.resources
           /\ warnings' = result.warnings
    /\ UNCHANGED <<plan, catalog, pc, report, exit_code, costs>>
    /\ UNCHANGED appVars

NextTwice == Usage \/ Abort \/ Estimate \/ EstimateAgain

SpecTwice == Init /\ [][NextTwice]_vars

----------------------------------------------------------------------------
(* app/src/app.py: the web service.                                        *)
(*                                                                         *)
(* app.run(threaded=True) serves every request on a thread of its own.  A  *)
(* request goes through before_request, the view of its route (or          *)
(* handle_exception when no view matches), then after_request.  A thread   *)
(* is at "idle", "view", "query" (it holds a connection and runs its       *)
(* statements), "error_store" and "store" (between the read and the write  *)
(* of a "+= 1" on a global), or "after".                                   *)

DbRoutes == {"/health", "/db", "GET /api/items", "POST /api/items"}
Routes == DbRoutes \cup {"/metrics", "/missing"}

(* The bodies a POST /api/items request can carry *)
Bodies == {"named", "nameless", "not json"}

(* The estimator script is not part of the web service *)
EstimatorNotRun ==
    /\ plan = NoArgument
    /\ catalog = NotAsked
    /\ pc = "start"
    /\ monthly_cost = 0
    /\ breakdown = <<>>
    /\ resources = EmptyResources
    /\ warnings = <<>>
    /\ report = FALSE
    /\ exit_code = -1
    /\ costs = NoCosts
    /\ first = NoRun

(* _initialize_database at import: DatabasePool.initialize leaves a pool,  *)
(* or None when the pool or its first connection could not be made         *)
InitApp ==
    /\ EstimatorNotRun
    /\ pool_ready \in BOOLEAN
    /\ in_use = 0
    /\ pool_exhausted = FALSE
    /\ tpc = [t \in Threads |-> "idle"]
    /\ route = [t \in Threads |-> "/"]
    /\ status = [t \in Threads |-> 0]
    /\ loaded = [t \in Threads |-> 0]
    /\ request_count = 0
    /\ error_count = 0
    /\ started = 0
    /\ completed = 0
    /\ handled = 0
    /\ reported = NothingReported

estimatorAll == <<plan, catalog, pc, monthly_cost, breakdown, resources,
                  warnings, report, exit_code, estimatorVars>>

(* The view returns a response with this status code; after_request is next *)
Respond(t, code) ==
    /\ tpc' = [tpc EXCEPT ![t] = "after"]
    /\ status' = [status EXCEPT ![t] = code]

(* A request arrives and before_request has run *)
Begin(t) ==
    /\ tpc[t] = "idle"
    /\ started < MaxRequests
    /\ \E r \in Routes : route' = [route EXCEPT ![t] = r]
    /\ tpc' = [tpc EXCEPT ![t] = "view"]
    /\ started' = started + 1
    /\ UNCHANGED <<pool_ready, in_use, pool_exhausted, status, loaded, request_count,
                   error_count, completed, handled, reported>>
    /\ UNCHANGED estimatorAll

(* db_pool.get_connection() in a view whose except branch responds with    *)
(* the code given.  DatabasePool.get_connection raises when there is no    *)
(* pool; SimpleConnectionPool.getconn raises PoolError when all maxconn    *)
(* connections are out; else one more connection is out and the thread     *)
(* goes on to its statements.  A raise lands in the view's except branch,  *)
(* which responds with the code given.                                     *)
get_connection(t, raised) ==
    IF pool_ready /\ in_use < MaxConn
    THEN /\ in_use' = in_use + 1
         /\ tpc' = [tpc EXCEPT ![t] = "query"]
         /\ UNCHANGED <<status, pool_exhausted>>
    ELSE /\ Respond(t, raised)
         /\ pool_exhausted' = (pool_exhausted \/ pool_ready)
         /\ UNCHANGED in_use

(* health up to get_connection: without a pool the check is skipped *)
health(t) ==
    /\ tpc[t] = "view"
    /\ route[t] = "/health"
    /\ IF pool_ready
       THEN get_connection(t, 200)
       ELSE Respond(t, 200) /\ UNCHANGED <<in_use, pool_exhausted>>
    /\ UNCHANGED <<pool_ready, route, loaded, request_count, error_count, started,
                   completed, handled, reported>>
    /\ UNCHANGED estimatorAll

(* db_check up to get_connection: 503 without a pool *)
db_check(t) ==
    /\ tpc[t] = "view"
    /\ route[t] = "/db"
    /\ IF pool_ready
       THEN get_connection(t, 503)
       ELSE Respond(t, 503) /\ UNCHANGED <<in_use, pool_exhausted>>
    /\ UNCHANGED <<pool_ready, route, loaded, request_count, error_count, started,
                   completed, handled, reported>>
    /\ UNCHANGED estimatorAll

(* get_items up to get_connection *)
get_items(t) ==
    /\ tpc[t] = "view"
    /\ route[t] = "GET /api/items"
    /\ get_connection(t, 500)
    /\ UNCHANGED <<pool_ready, route, loaded, request_count, error_count, started,
                   completed, handled, reported>>
    /\ UNCHANGED estimatorAll

(* create_item up to get_connection: 400 for a body without a name, 500    *)
(* when get_json raises, both before a connection is taken                 *)
create_item(t) ==
    /\ tpc[t] = "view"
    /\ route[t] = "POST /api/items"
    /\ \E body \in Bodies :
          CASE body = "nameless" -> Respond(t, 400) /\ UNCHANGED <<in_use, pool_exhausted>>
            [] body = "not json" -> Respond(t, 500) /\ UNCHANGED <<in_use, pool_exhausted>>
            [] body = "named" -> get_connection(t, 500)
    /\ UNCHANGED <<pool_ready, route, loaded, request_count, error_count, started,
                   completed, handled, reported>>
    /\ UNCHANGED estimatorAll

(* The status codes of the four views that use the database *)
Succeeded(r) == IF r = "POST /api/items" THEN 201 ELSE 200
Failed(r) ==
    CASE r = "/health" -> 200
      [] r = "/db" -> 503
      [] OTHER -> 500

(* DatabasePool.return_connection: putconn when there is a pool *)
return_connection ==
    in_use' = IF pool_ready THEN in_use - 1 ELSE in_use

(* The rest of a view that holds a connection: cursor(), execute, fetch    *)
(* (and commit in create_item).  When all of them return, the view calls   *)
(* return_connection and responds; when one raises, the except branch      *)
(* responds, and it does not call return_connection.                       *)
execute(t) ==
    /\ tpc[t] = "query"
    /\ \E raises \in BOOLEAN :
          IF raises
          THEN Respond(t, Failed(route[t])) /\ UNCHANGED in_use
          ELSE Respond(t, Succeeded(route[t])) /\ return_connection
    /\ UNCHANGED <<pool_ready, pool_exhausted, route, loaded, request_count, error_count,
                   started, completed, handled, reported>>
    /\ UNCHANGED estimatorAll

(* metrics: the body holds the two globals as they are read *)
metrics(t) ==
    /\ tpc[t] = "view"
    /\ route[t] = "/metrics"
    /\ reported' = [sent |-> TRUE, requests |-> request_count, errors |-> error_count,
                    completed |-> completed, handled |-> handled]
    /\ Respond(t, 200)
    /\ UNCHANGED <<pool_ready, in_use, pool_exhausted, route, loaded, request_count,
                   error_count, started, completed, handled>>
    /\ UNCHANGED estimatorAll

(* No view matches: NotFound reaches handle_exception, whose               *)
(* "error_count += 1" first reads the global ...                           *)
handle_exception_load(t) ==
    /\ tpc[t] = "view"
    /\ route[t] = "/missing"
    /\ loaded' = [loaded EXCEPT ![t] = error_count]
    /\ tpc' = [tpc EXCEPT ![t] = "error_store"]
    /\ UNCHANGED <<pool_ready, in_use, pool_exhausted, route, status, request_count,
                   error_count, started, completed, handled, reported>>
    /\ UNCHANGED estimatorAll

(* ... and then writes the value read plus one; the response is the 404 *)
handle_exception_store(t) ==
    /\ tpc[t] = "error_store"
    /\ error_count' = loaded[t] + 1
    /\ handled' = handled + 1
    /\ Respond(t, 404)
    /\ UNCHANGED <<pool_ready, in_use, pool_exhausted, route, loaded, request_count,
                   started, completed, reported>>
    /\ UNCHANGED estimatorAll

(* after_request: "request_count += 1" reads the global ... *)
after_request_load(t) ==
    /\ tpc[t] = "after"
    /\ loaded' = [loaded EXCEPT ![t] = request_count]
    /\ tpc' = [tpc EXCEPT ![t] = "store"]
    /\ UNCHANGED <<pool_ready, in_use, pool_exhausted, route, status, request_count,
                   error_count, started, completed, handled, reported>>
    /\ UNCHANGED estimatorAll

(* ... and writes the value read plus one; the hook then sets headers,     *)
(* logs and returns the response                                           *)
after_request_store(t) ==
    /\ tpc[t] = "store"
    /\ request_count' = loaded[t] + 1
    /\ completed' = completed + 1
    /\ tpc' = [tpc EXCEPT ![t] = "idle"]
    /\ UNCHANGED <<pool_ready, in_use, pool_exhausted, route, status, loaded,
                   error_count, started, handled, reported>>
    /\ UNCHANGED estimatorAll

NextApp ==
    \E t \in Threads :
        \/ Begin(t)
        \/ health(t)
        \/ db_check(t)
        \/ get_items(t)
        \/ create_item(t)
        \/ execute(t)
        \/ metrics(t)
        \/ handle_exception_load(t)
        \/ handle_exception_store(t)
        \/ after_request_load(t)
        \/ after_request_store(t)

SpecApp == InitApp /\ [][NextApp]_vars

----------------------------------------------------------------------------
(* Vocabulary of the properties, read off the plan and the catalog rather  *)
(* than off the estimator's operators.                                     *)

Changes == IF plan.rc = "list" THEN plan.changes ELSE <<>>

IsList == plan.file = "object" /\ plan.rc = "list"

DeleteOnly(e) == e.obj /\ e.actions = <<"delete">>

HasType(e, types) == e.obj /\ ~DeleteOnly(e) /\ e.type \in types

ComputeTypes == {"aws_instance", "aws_launch_template"}
DatabaseTypes == {"aws_db_instance"}
AlbTypes == {"aws_lb", "aws_alb"}
NatTypes == {"aws_nat_gateway"}
KnownTypes == ComputeTypes \cup DatabaseTypes \cup AlbTypes \cup NatTypes

Present(v) == v # NoKey /\ v # ""

IsCompute(e) == HasType(e, ComputeTypes) /\ Present(e.instance_type)
IsDatabase(e) == HasType(e, DatabaseTypes) /\ Present(e.instance_class)
IsAlb(e) == HasType(e, AlbTypes)
IsNat(e) == HasType(e, NatTypes)

(* The number of elements of a sequence that satisfy a test *)
Count(s, Test(_)) == Cardinality({ i \in 1..Len(s) : Test(s[i]) })

(* The subsequence of the elements that satisfy a test *)
Keep(s, Test(_)) == SelectSeq(s, Test)

RECURSIVE SumSeq(_)
SumSeq(s) == IF s = <<>> THEN 0 ELSE Head(s) + SumSeq(Tail(s))

ListOf(changes) == Document("object", "list", changes)

(* The hourly price the catalog holds for a query, 0 when the lookup fails *)
PresentPrice(q) == IF catalog[q].kind = "price" THEN catalog[q].usd ELSE 0

LookupFails(q) == catalog[q].kind # "price"

Ec2Query == <<"AmazonEC2", Ec2Type>>
RdsQuery == <<"AmazonRDS", RdsClass>>

Lines(label) == { i \in 1..Len(breakdown) : breakdown[i].label = label }

----------------------------------------------------------------------------
(* C1: a plan in which every change is destroy-only is estimated at a      *)
(* monthly cost of 0 with an empty breakdown, whatever the types and       *)
(* attributes of the changes and whatever the catalog holds; nothing is    *)
(* looked up, so no resource is recorded and no warning is printed.        *)
AllDeleteOnly == IsList /\ \A i \in 1..Len(plan.changes) : DeleteOnly(plan.changes[i])

C1_DeleteOnlyPlanCostsNothing ==
    (AllDeleteOnly /\ pc # "start") =>
        /\ pc = "done"
        /\ monthly_cost = 0
        /\ breakdown = <<>>
        /\ resources = EmptyResources
        /\ warnings = <<>>

C1_Witness ==
    /\ pc = "done"
    /\ AllDeleteOnly
    /\ Len(plan.changes) >= 2
    /\ \E i, j \in 1..Len(plan.changes) : plan.changes[i].type # plan.changes[j].type
    /\ catalog[Ec2Query].kind = "price" /\ catalog[Ec2Query].usd > 0
    /\ monthly_cost = 0

----------------------------------------------------------------------------
(* C2: appending one priceable change (compute instance, launch template,  *)
(* database instance, load balancer or NAT gateway, not destroy-only) to   *)
(* the change list never lowers the monthly cost computed under the same   *)
(* catalog.                                                                *)
CostWith(e) == estimate_cost(ListOf(Append(plan.changes, e)), catalog).monthly_cost

C2_AddingAResourceNeverLowersCost ==
    (pc = "done" /\ IsList) =>
        \A e \in PriceableEntries : CostWith(e) >= monthly_cost

C2_Witness ==
    /\ pc = "done"
    /\ IsList
    /\ monthly_cost > 0
    /\ \E e \in PriceableEntries : CostWith(e) > monthly_cost
    /\ \E e \in PriceableEntries : CostWith(e) = monthly_cost

----------------------------------------------------------------------------
(* C3: a plan holding one aws_lb change that is not destroy-only, and      *)
(* nothing else, yields an ALB line that displays 16.43 per month.         *)
OneAlb ==
    /\ IsList
    /\ Len(plan.changes) = 1
    /\ plan.changes[1].obj
    /\ plan.changes[1].type = "aws_lb"
    /\ ~DeleteOnly(plan.changes[1])

C3_OneAlbDisplays1643 ==
    (pc = "done" /\ OneAlb) =>
        \E i \in Lines("ALB") : breakdown[i].n = 1 /\ breakdown[i].amount = 1643

----------------------------------------------------------------------------
(* C4: n > 0 NAT gateway changes that are not destroy-only yield one NAT   *)
(* Gateway line, which displays n x 32.85 per month (32.85 for one), and   *)
(* add exactly n x 0.045 x 730 to the monthly cost of the plan without     *)
(* them.                                                                   *)
NotNat(e) == ~IsNat(e)

NatCount == Count(Changes, IsNat)

C4_NatGatewayCost ==
    (pc = "done" /\ IsList /\ NatCount > 0) =>
        /\ \E i \in Lines("NAT Gateway") :
              breakdown[i].n = NatCount /\ breakdown[i].amount = 3285 * NatCount
        /\ Cardinality(Lines("NAT Gateway")) = 1
        /\ monthly_cost =
              estimate_cost(ListOf(Keep(Changes, NotNat)), catalog).monthly_cost
                  + 328500 * NatCount

C4_Witness ==
    /\ pc = "done"
    /\ IsList
    /\ NatCount = 2
    /\ monthly_cost > 657000
    /\ \E i \in Lines("NAT Gateway") : breakdown[i].amount = 6570

----------------------------------------------------------------------------
(* C5: when the catalog answers a compute lookup with an empty result set, *)
(* the compute changes add nothing to the monthly cost and give no line in *)
(* the breakdown, and resources.ec2_instances still holds every one of     *)
(* them; the lengths of ec2_instances and rds_instances are the numbers of *)
(* compute and database changes of the plan, whatever the lookups answer.  *)
NotCompute(e) == ~IsCompute(e)

C5_EmptyLookupKeepsInventory ==
    (pc = "done" /\ IsList) =>
        /\ Len(resources.ec2_instances) = Count(Changes, IsCompute)
        /\ Len(resources.rds_instances) = Count(Changes, IsDatabase)
        /\ catalog[Ec2Query].kind = "empty" =>
              /\ Lines("EC2") = {} /\ Lines("EC2 Total") = {}
              /\ monthly_cost =
                    estimate_cost(ListOf(Keep(Changes, NotCompute)), catalog).monthly_cost

C5_Witness ==
    /\ pc = "done"
    /\ IsList
    /\ catalog[Ec2Query].kind = "empty"
    /\ Len(plan.changes) = 1
    /\ IsCompute(plan.changes[1])
    /\ Len(resources.ec2_instances) = 1
    /\ monthly_cost = 0
    /\ breakdown = <<>>

----------------------------------------------------------------------------
(* C6: the monthly subtotal of the database group, and likewise of the     *)
(* compute group, is 730 times the sum of the present hourly prices of its *)
(* items: the group adds exactly that to the monthly cost, and its total   *)
(* line, which is there exactly when the sum is positive, displays that    *)
(* product rounded to the nearest cent, not a sum of rounded per-instance  *)
(* products.                                                               *)
NotDatabase(e) == ~IsDatabase(e)

RdsHourlySum == Count(Changes, IsDatabase) * PresentPrice(RdsQuery)
Ec2HourlySum == Count(Changes, IsCompute) * PresentPrice(Ec2Query)

NearestCents(amount, cents) ==
    100 * cents - amount <= 50 /\ amount - 100 * cents <= 50

GroupTotal(label, hourlySum) ==
    IF hourlySum > 0
    THEN /\ Cardinality(Lines(label)) = 1
         /\ \A i \in Lines(label) : NearestCents(730 * hourlySum, breakdown[i].amount)
    ELSE Lines(label) = {}

C6_GroupSubtotalIsSumTimes730 ==
    (pc = "done" /\ IsList) =>
        /\ monthly_cost =
              estimate_cost(ListOf(Keep(Changes, NotDatabase)), catalog).monthly_cost
                  + 730 * RdsHourlySum
        /\ monthly_cost =
              estimate_cost(ListOf(Keep(Changes, NotCompute)), catalog).monthly_cost
                  + 730 * Ec2HourlySum
        /\ GroupTotal("RDS Total", RdsHourlySum)
        /\ GroupTotal("EC2 Total", Ec2HourlySum)

C6_Witness ==
    /\ pc = "done"
    /\ IsList
    /\ Count(Changes, IsDatabase) = 2
    /\ PresentPrice(RdsQuery) = 171
    /\ \E i \in Lines("RDS Total") : breakdown[i].amount = 2497
    /\ monthly_cost >= 249660

----------------------------------------------------------------------------
(* C7, as claimed: the run fails fatally, with a non-zero exit status, no  *)
(* report and no result, whenever the plan file is not a well-formed       *)
(* document or its resource_changes field is missing or malformed.         *)
NotWellFormed == plan.file \in {"unreadable", "illformed", "nonobject"}

MalformedChangeList ==
    /\ plan.file = "object"
    /\ \/ plan.rc \in {"null", "scalar"}
       \/ plan.rc = "list" /\ \E i \in 1..Len(plan.changes) : ~plan.changes[i].obj

MissingChangeList == plan.file = "object" /\ plan.rc = "missing"

Fatal ==
    /\ pc = "aborted"
    /\ exit_code = 1
    /\ ~report
    /\ monthly_cost = 0 /\ breakdown = <<>> /\ resources = EmptyResources
    /\ warnings = <<>>

C7_MissingOrMalformedIsFatal ==
    (pc # "start" /\ (NotWellFormed \/ MalformedChangeList \/ MissingChangeList))
        => Fatal

(* C7, amended: the run fails fatally whenever the plan file is unreadable,*)
(* is not well-formed JSON, is not a JSON object, or its resource_changes  *)
(* field is null, is not iterable or holds an element that is no object;   *)
(* a document without the field is read as an empty change list and gives  *)
(* a report with a monthly cost of 0 and exit status 0.                    *)
C7_MalformedIsFatalMissingIsEmpty ==
    /\ (pc # "start" /\ (NotWellFormed \/ MalformedChangeList)) => Fatal
    /\ (pc # "start" /\ MissingChangeList) =>
          /\ pc = "done"
          /\ exit_code = 0
          /\ report
          /\ monthly_cost = 0 /\ breakdown = <<>> /\ resources = EmptyResources

C7_Witness ==
    /\ Fatal
    /\ plan.rc = "list"
    /\ Len(plan.changes) >= 2
    /\ IsAlb(plan.changes[1])
    /\ ~plan.changes[Len(plan.changes)].obj

----------------------------------------------------------------------------
(* C8: once parsing has succeeded the run completes and returns a result,  *)
(* and every lookup that fails (the query raises, the result set is empty, *)
(* the price structure is malformed) prints a warning for its item.        *)
WarningsFor(w) == Cardinality({ i \in 1..Len(warnings) : warnings[i] = w })

C8_LookupFailureWarnsAndCompletes ==
    /\ (pc \in {"done", "aborted"} /\ ~ParseRaises(plan)) => pc = "done"
    /\ (pc = "done" /\ LookupFails(Ec2Query)) =>
          WarningsFor(<<"EC2", Ec2Type>>) = Len(resources.ec2_instances)
    /\ (pc = "done" /\ LookupFails(RdsQuery)) =>
          WarningsFor(<<"RDS", RdsClass>>) = Len(resources.rds_instances)

----------------------------------------------------------------------------
(* C9: a change of none of the six known types, and a change of a compute  *)
(* or database type whose after map holds no instance_type /               *)
(* instance_class, is dropped: resources, monthly cost and breakdown are   *)
(* those of the plan without it, and the run is not aborted; every         *)
(* aws_lb, aws_alb and aws_nat_gateway change that is not destroy-only     *)
(* counts once, whatever its attributes.                                   *)
Dropped(e) ==
    /\ e.obj
    /\ ~DeleteOnly(e)
    /\ \/ e.type \notin KnownTypes
       \/ e.type \in ComputeTypes /\ e.after # "null" /\ ~Present(e.instance_type)
       \/ e.type \in DatabaseTypes /\ e.after # "null" /\ ~Present(e.instance_class)

NotDropped(e) == ~Dropped(e)

Readable(e) ==
    e.obj /\ (DeleteOnly(e) \/ e.after # "null"
                \/ e.type \notin ComputeTypes \cup DatabaseTypes)

C9_UnclassifiedChangesAreDropped ==
    /\ (pc # "start" /\ IsList /\ \A i \in 1..Len(plan.changes) : Readable(plan.changes[i]))
          => pc = "done"
    /\ (pc = "done" /\ IsList) =>
          LET without == estimate_cost(ListOf(Keep(Changes, NotDropped)), catalog)
          IN  /\ resources = without.resources
              /\ monthly_cost = without.monthly_cost
              /\ breakdown = without.breakdown
              /\ resources.albs = Count(Changes, IsAlb)
              /\ resources.nat_gateways = Count(Changes, IsNat)

C9_Witness ==
    /\ pc = "done"
    /\ IsList
    /\ Len(plan.changes) = 2
    /\ Dropped(plan.changes[1])
    /\ plan.changes[1].type \in ComputeTypes \cup DatabaseTypes
    /\ IsNat(plan.changes[2]) /\ Present(plan.changes[2].instance_type)
    /\ resources.nat_gateways = 1
    /\ resources.ec2_instances = <<>> /\ resources.rds_instances = <<>>
    /\ monthly_cost = 328500

----------------------------------------------------------------------------
(* C10: the monthly cost returned is the sum of the four group subtotals:  *)
(* 730 x the present compute prices + 730 x the present database prices    *)
(* + 0.0225 x 730 x albs + 0.045 x 730 x nat_gateways.                      *)
PresentPrices(service, ids) ==
    [i \in 1..Len(ids) |-> PresentPrice(<<service, ids[i]>>)]

C10_TotalIsSumOfGroups ==
    pc = "done" =>
        monthly_cost =
            730 * SumSeq(PresentPrices("AmazonEC2", resources.ec2_instances))
          + 730 * SumSeq(PresentPrices("AmazonRDS", resources.rds_instances))
          + 225 * 730 * resources.albs
          + 450 * 730 * resources.nat_gateways

C10_Witness ==
    /\ pc = "done"
    /\ Len(resources.ec2_instances) + Len(resources.rds_instances)
         + resources.albs + resources.nat_gateways >= 3
    /\ PresentPrice(Ec2Query) > 0 /\ resources.ec2_instances # <<>>
    /\ PresentPrice(RdsQuery) > 0 /\ resources.rds_instances # <<>>
    /\ resources.albs + resources.nat_gateways > 0
    /\ monthly_cost > 730 * (PresentPrice(Ec2Query) + PresentPrice(RdsQuery))

----------------------------------------------------------------------------
----------------------------------------------------------------------------
(* C12 as stated: in every returned breakdown all per-item lines (compute  *)
(* and database) precede every per-category subtotal line, a subtotal      *)
(* line is there for a category exactly when its total is above zero, and  *)
(* the flat-rate lines (ALB, NAT Gateway) come last, one per flat-rate     *)
(* category exactly when its count is above zero.                          *)
ItemLines == Lines("EC2") \cup Lines("RDS")
SubtotalLines == Lines("EC2 Total") \cup Lines("RDS Total")
FlatLines == Lines("ALB") \cup Lines("NAT Gateway")

Ec2Total == Len(resources.ec2_instances) * PresentPrice(Ec2Query) * HoursPerMonth
RdsTotal == Len(resources.rds_instances) * PresentPrice(RdsQuery) * HoursPerMonth

OneLineIff(label, present) ==
    Cardinality(Lines(label)) = IF present THEN 1 ELSE 0

SubtotalsAndFlatLinesPresent ==
    /\ OneLineIff("EC2 Total", Ec2Total > 0)
    /\ OneLineIff("RDS Total", RdsTotal > 0)
    /\ OneLineIff("ALB", resources.albs > 0)
    /\ OneLineIff("NAT Gateway", resources.nat_gateways > 0)

C12_ItemLinesThenSubtotalsThenFlat ==
    pc = "done" =>
        /\ \A i \in ItemLines : \A j \in SubtotalLines : i < j
        /\ \A j \in ItemLines \cup SubtotalLines : \A k \in FlatLines : j < k
        /\ SubtotalsAndFlatLinesPresent

(* C12 amended: the breakdown is laid out category by category: the        *)
(* compute item lines, then the compute subtotal, then the database item   *)
(* lines, then the database subtotal, then the ALB line, then the NAT      *)
(* Gateway line; a subtotal line is there exactly when the category total  *)
(* is above zero and a flat-rate line exactly when the count is above      *)
(* zero.                                                                   *)
Rank(label) ==
    CASE label = "EC2" -> 1
      [] label = "EC2 Total" -> 2
      [] label = "RDS" -> 3
      [] label = "RDS Total" -> 4
      [] label = "ALB" -> 5
      [] label = "NAT Gateway" -> 6

C12_BreakdownIsGroupedByCategory ==
    pc = "done" =>
        /\ \A i \in 1..Len(breakdown) : \A j \in 1..Len(breakdown) :
              i < j => Rank(breakdown[i].label) <= Rank(breakdown[j].label)
        /\ SubtotalsAndFlatLinesPresent

C12_Witness ==
    /\ pc = "done"
    /\ Len(breakdown) = 5
    /\ Lines("EC2") # {} /\ Lines("RDS") # {}
    /\ SubtotalLines # {} /\ FlatLines # {}
    /\ \E i \in Lines("EC2 Total") : \E j \in Lines("RDS") : i < j

----------------------------------------------------------------------------
(* C13: a cost is left out only when a lookup fails, and then a warning    *)
(* says so: for the compute items and for the database items of            *)
(* resources, either the breakdown holds one per-item line for each of     *)
(* them, or the lookup gave no price and one warning was printed for each  *)
(* of them.  An item whose lookup gave a price, a price of zero included,  *)
(* is never without both its line and a warning.                           *)
ItemsAccountedFor(label, ids, q) ==
    \/ /\ ~LookupFails(q)
       /\ Cardinality(Lines(label)) = Len(ids)
       /\ \A i \in Lines(label) : breakdown[i].amount = PresentPrice(q)
    \/ /\ LookupFails(q)
       /\ Lines(label) = {}
       /\ \A i \in 1..Len(ids) : WarningsFor(<<label, ids[i]>>) = Len(ids)

C13_OmissionIsLookupFailureWithWarning ==
    pc = "done" =>
        /\ ItemsAccountedFor("EC2", resources.ec2_instances, Ec2Query)
        /\ ItemsAccountedFor("RDS", resources.rds_instances, RdsQuery)

----------------------------------------------------------------------------
(* C14: every connection a view takes with get_connection is given back    *)
(* with return_connection by the time the view responds, also when a       *)
(* statement raises: the connections out of the pool are those of the      *)
(* threads still running their statements, none is out when no request is  *)
(* in flight, and getconn never finds the pool exhausted while fewer than  *)
(* MaxConn threads hold a connection.                                      *)
Holding == { t \in Threads : tpc[t] = "query" }

C14_PoolIsBalanced ==
    /\ in_use = Cardinality(Holding)
    /\ (\A t \in Threads : tpc[t] = "idle") => in_use = 0
    /\ ~pool_exhausted

----------------------------------------------------------------------------
(* C15: under every interleaving of the threads, request_count equals the  *)
(* number of requests whose after_request hook has counted them and        *)
(* error_count the number of handle_exception calls, and so does every     *)
(* pair of values a /metrics body has reported: no "+= 1" is lost.         *)
C15_NoIncrementIsLost ==
    /\ request_count = completed
    /\ error_count = handled
    /\ reported.requests = reported.completed
    /\ reported.errors = reported.handled

====
